---------------------------- MODULE Spec2Model ----------------------------
(***************************************************************************)
(* A model of src/my_game.py: the participants (Human, AI), the agent      *)
(* subprocess protocol and the turn scheduler game().                      *)
(*                                                                         *)
(* Texts are sequences of tokens; a token is an indivisible run of         *)
(* characters ("Traceback", ">", "stop", " ", "\n", ...).                  *)
(*                                                                         *)
(* Two statements of the template cannot execute as they are written:      *)
(*   line 331  `await Player.print()` lacks the argument `output`;         *)
(*   line 337  passes `debug` positionally, which Human.ask_move           *)
(*             (line 136) does not accept.                                 *)
(* Both raise TypeError in Python.  Line 331 is the template's placeholder *)
(* for the collaborator's rendering and lines 135/336 tell the game author *)
(* to fill in the argument list, so the model takes the rendering as a     *)
(* hook without effect on the session and the call as reaching the body of *)
(* ask_move; everything else is modelled as written.                       *)
(***************************************************************************)
EXTENDS Integers, Sequences, FiniteSets, TLC

\* ------------------------------------------------------------------------
\* Bounds of the model
\* ------------------------------------------------------------------------

\* largest number of participants of a session
MaxPlayers == 3

\* largest number of agent processes that exit on their own in a session
MaxExits == 1

\* the per-turn counters of calls saturate at this value
MaxCount == 2

\* the ticks spent inside one AI.ask_move saturate at this value
MaxElapsed == 3

\* ------------------------------------------------------------------------
\* Program constants
\* ------------------------------------------------------------------------

\* TIMEOUT_LENGTH = 0.1 s, counted in ticks of 0.05 s
TIMEOUT_LENGTH == 2

\* DISCORD_TIMEOUT = 60 s, counted in ticks of 60 s (the ticks of a Human's
\* input are not those of an agent's reads)
DISCORD_TIMEOUT == 1

\* Python's None: a value distinct from every text of the model's inputs
None == <<"None">>

\* winner = None is written NoPlayer where a seat number is expected
NoPlayer == -1

\* asyncio.subprocess.PIPE, the integer -1 that drain() stores in prog.stdin
PIPE == "PIPE"

\* ------------------------------------------------------------------------
\* Texts
\* ------------------------------------------------------------------------

Whitespace == {" ", "\n"}

RECURSIVE lstrip(_)
lstrip(s) ==
    IF Len(s) > 0 /\ Head(s) \in Whitespace THEN lstrip(Tail(s)) ELSE s

RECURSIVE rstrip(_)
rstrip(s) ==
    IF Len(s) > 0 /\ s[Len(s)] \in Whitespace
    THEN rstrip(SubSeq(s, 1, Len(s) - 1))
    ELSE s

\* str.strip()
strip(s) == rstrip(lstrip(s))

\* str.startswith(prefix) for a one-token prefix
startswith(s, prefix) == Len(s) > 0 /\ Head(s) = prefix

\* Python truthiness of a move: None and "" are falsy
Falsy(v) == v = None \/ v = <<>>

\* Player.sanithize: the pair (move, reason)
sanithize(userInput) ==
    IF userInput = <<"stop">>
    THEN <<None, <<"user interrupt">> >>
    ELSE <<userInput, None>>

\* what a Human can enter (raw, neither stripped nor newline-terminated)
HumanInputs == { <<"e2">>, <<>>, <<"stop">> }

\* the lines an agent can write on its stdout, as readuntil() returns them
AgentLines ==
    { <<"e2", "\n">>, <<"\n">>, <<" ", "\n">>, <<"stop", "\n">>,
      <<">", "x", "\n">>, <<"Traceback", " ", "x", "\n">>,
      <<" ", "Traceback", "\n">> }

\* the strings tell_other_players is called with
ValidInputHere == <<"valid input here">>

\* str.count(sub) for a one-token sub
RECURSIVE count(_, _)
count(s, sub) ==
    IF s = <<>> THEN 0
    ELSE (IF Head(s) = sub THEN 1 ELSE 0) + count(Tail(s), sub)

\* AI.start_game: the handshake, f"Your message here\n"
Handshake == <<"Your message here", "\n">>

\* AI.tell_move: the text written for `move`, f"{move}n"
Notification(m) == m \o <<"n">>

\* prog.stdin.write(data) on an open transport whose reader has been sent
\* n terminated lines: the number of terminated lines after it (saturating)
write(n, data) ==
    IF n + count(data, "\n") < MaxCount THEN n + count(data, "\n")
    ELSE MaxCount

\* ------------------------------------------------------------------------
\* State
\* ------------------------------------------------------------------------

VARIABLES
    players,        \* the list of participants: seat -> [class, ifunc]
    alive,          \* seat -> alive flag; a seat is in the domain once set
    proc,           \* seat -> state of the agent process, once spawned
    stdin,          \* seat -> state of prog.stdin, once spawned
    handshakes,     \* agent seat -> handshake writes made in the session
    pipe,           \* seat -> terminated lines sent to the agent's input
    pc,             \* position of game()
    alive_players,  \* game(): alive_players
    errors,         \* game(): errors, the dict seat -> reason
    turn,           \* game(): turn, kept modulo nb_players
    winner,         \* game(): winner
    i,              \* game(): i, the acting seat
    user_input,     \* game(): user_input
    error,          \* game(): error
    move,           \* tell_other_players: the move being told
    j,              \* tell_other_players: position in `players`
    elapsed,        \* ask_move: ticks since this call started waiting
    progInput,      \* AI.ask_move: the line this call read last, as read
    exc,            \* the exception that escaped game(), "" if none
    asks,           \* ask_move calls on the acting seat in this turn
    told,           \* seat -> tell_move calls on it in this turn
    stopped         \* the agents whose stop_game has finished

vars == << players, alive, proc, stdin, handshakes, pipe, pc, alive_players, errors,
           turn, winner, i, user_input, error, move, j, elapsed, progInput, exc,
           asks, told, stopped >>

sessionVars == << players >>
agentVars == << proc, stdin, handshakes, pipe >>
loopVars == << alive_players, errors, turn, winner, i >>
askVars == << user_input, error, elapsed, progInput >>
tellVars == << move, j >>
countVars == << asks, told >>

nb_players == Len(players)
Seats == 0 .. nb_players - 1
player(p) == players[p + 1]
isAI(p) == player(p).class = "AI"
isHuman(p) == player(p).class = "Human"
AIs == { p \in Seats : isAI(p) }

\* saturating increment of a counter of calls
Inc(n) == IF n < MaxCount THEN n + 1 ELSE n

\* the participants main() can build: a Human with or without an input
\* hook, or an AI
Participants ==
    { [class |-> "Human", ifunc |-> TRUE],
      [class |-> "Human", ifunc |-> FALSE],
      [class |-> "AI", ifunc |-> FALSE] }

PlayerLists ==
    UNION { [1 .. n -> Participants] : n \in 2 .. MaxPlayers }

EmptyMap == [p \in {} |-> FALSE]

Init ==
    /\ players \in PlayerLists
    /\ alive = EmptyMap
    /\ proc = EmptyMap
    /\ stdin = EmptyMap
    /\ handshakes = [p \in AIs |-> 0]
    /\ pipe = EmptyMap
    /\ pc = "start"
    /\ alive_players = Len(players)
    /\ errors = EmptyMap
    /\ turn = 0
    /\ winner = NoPlayer
    /\ i = 0
    /\ user_input = None
    /\ error = None
    /\ move = None
    /\ j = 0
    /\ elapsed = 0
    /\ progInput = <<>>
    /\ exc = ""
    /\ asks = 0
    /\ told = [p \in 0 .. Len(players) - 1 |-> 0]
    /\ stopped = {}


\* the map f with f[k] set to v, k being added to its domain if need be
Put(f, k, v) == [x \in DOMAIN f \cup {k} |-> IF x = k THEN v ELSE f[x]]

\* ------------------------------------------------------------------------
\* Session start: the fan-out of start_game
\* ------------------------------------------------------------------------

\* Player.start_game of seat p, one member of the gather: alive = True.
\* A Human's start_game is over with it; an AI's goes on to
\* create_subprocess_shell, where it is suspended
start_game(p) ==
    /\ pc = "start"
    /\ p \in Seats
    /\ p \notin DOMAIN alive
    /\ alive' = Put(alive, p, TRUE)
    /\ UNCHANGED << sessionVars, agentVars, pc, loopVars, askVars, tellVars,
                    exc, countVars, stopped >>

\* AI.drain on seat p: "ok", or the AttributeError raised by awaiting
\* drain() on the integer PIPE that replaced a lost prog.stdin
drain(p) == IF stdin[p] = "open" THEN "ok" ELSE "AttributeError"

\* AI.start_game of seat p: create_subprocess_shell has returned; the
\* process runs, prog.stdin is its open write transport
AI_start_game(p) ==
    /\ pc = "start"
    /\ p \in AIs
    /\ p \in DOMAIN alive
    /\ p \notin DOMAIN proc
    /\ proc' = Put(proc, p, "running")
    /\ stdin' = Put(stdin, p, "open")
    /\ pipe' = Put(pipe, p, 0)
    /\ UNCHANGED << sessionVars, alive, handshakes, pc, loopVars, askVars,
                    tellVars, exc, countVars, stopped >>

\* AI_start_game_handshake writing the handshake twice
AI_start_game_handshake_twice(p) ==
    /\ pc = "start"
    /\ p \in DOMAIN proc
    /\ handshakes[p] = 0
    /\ handshakes' = [handshakes EXCEPT ![p] = Inc(Inc(@))]
    /\ IF drain(p) = "ok"
       THEN /\ pipe' = [pipe EXCEPT ![p] = write(write(@, Handshake), Handshake)]
            /\ UNCHANGED << stdin, pc, exc >>
       ELSE /\ stdin' = [stdin EXCEPT ![p] = PIPE]
            /\ pc' = "raised"
            /\ exc' = drain(p)
            /\ UNCHANGED pipe
    /\ UNCHANGED << sessionVars, alive, proc, loopVars, askVars, tellVars,
                    countVars, stopped >>

\* AI.start_game of seat p: the handshake is written and drained, which
\* ends this start_game; on a lost transport the write is dropped and
\* drain() raises out of the gather
AI_start_game_handshake(p) ==
    /\ pc = "start"
    /\ p \in DOMAIN proc
    /\ handshakes[p] = 0
    /\ handshakes' = [handshakes EXCEPT ![p] = Inc(@)]
    /\ IF drain(p) = "ok"
       THEN /\ pipe' = [pipe EXCEPT ![p] = write(@, Handshake)]
            /\ UNCHANGED << stdin, pc, exc >>
       ELSE /\ stdin' = [stdin EXCEPT ![p] = PIPE]
            /\ pc' = "raised"
            /\ exc' = drain(p)
            /\ UNCHANGED pipe
    /\ UNCHANGED << sessionVars, alive, proc, loopVars, askVars, tellVars,
                    countVars, stopped >>

\* the participants whose start_game is over
Started ==
    { p \in DOMAIN alive : isAI(p) => handshakes[p] > 0 }

\* game(): the gather of the starters has returned, every start_game being
\* over; turn = 0, winner = None
game_started ==
    /\ pc = "start"
    /\ Started = Seats
    /\ pc' = "loop"
    /\ turn' = 0
    /\ winner' = NoPlayer
    /\ UNCHANGED << sessionVars, alive, agentVars, alive_players, errors, i,
                    askVars, tellVars, exc, countVars, stopped >>

\* ------------------------------------------------------------------------
\* The environment: an agent process exits on its own
\* ------------------------------------------------------------------------

\* the process of seat p exits; its end of the stdin pipe is closed, so the
\* harness's write transport is lost
agent_exits(p) ==
    /\ pc \notin {"done", "raised"}
    /\ p \in DOMAIN proc
    /\ proc[p] = "running"
    /\ Cardinality({ q \in DOMAIN proc : proc[q] = "exited" }) < MaxExits
    /\ proc' = [proc EXCEPT ![p] = "exited"]
    /\ stdin' = [stdin EXCEPT ![p] = IF @ = "open" THEN "lost" ELSE @]
    /\ UNCHANGED << sessionVars, alive, handshakes, pipe, pc, loopVars, askVars, tellVars, exc,
                    countVars, stopped >>

\* ------------------------------------------------------------------------
\* game(): the loop
\* ------------------------------------------------------------------------

\* the loop going on while one participant is alive
LoopCondition_one == alive_players >= 1

\* the condition of the game loop
LoopCondition == alive_players >= 2

\* `while alive_players >= 2` holds: i = turn % nb_players; a dead seat's
\* turn goes to the null-move broadcast, an alive seat's to the rendering
game_turn ==
    /\ pc = "loop"
    /\ LoopCondition
    /\ i' = turn % nb_players
    /\ IF ~alive[i']
       THEN /\ pc' = "tell"
            /\ move' = None
            /\ j' = 0
       ELSE /\ pc' = "render"
            /\ UNCHANGED tellVars
    /\ UNCHANGED << sessionVars, alive, agentVars, alive_players, errors,
                    turn, winner, askVars, exc, countVars, stopped >>

\* the rendering placeholder, then user_input, error = None, None
game_render ==
    /\ pc = "render"
    /\ user_input' = None
    /\ error' = None
    /\ pc' = "ask"
    /\ UNCHANGED << sessionVars, alive, agentVars, loopVars, elapsed,
                    progInput, tellVars, exc, countVars, stopped >>

\* `while not user_input`: player.ask_move is called
game_ask ==
    /\ pc = "ask"
    /\ asks' = Inc(asks)
    /\ elapsed' = 0
    /\ pc' = IF isAI(i) THEN "read" ELSE "input"
    /\ UNCHANGED << sessionVars, alive, agentVars, loopVars, user_input,
                    error, progInput, tellVars, exc, told, stopped >>

\* ------------------------------------------------------------------------
\* ask_move
\* ------------------------------------------------------------------------

\* saturating advance of the ticks spent in ask_move
Later(t, d) == IF t + d < MaxElapsed THEN t + d ELSE MaxElapsed

\* Human.input: the ticks after which an input can arrive: before
\* DISCORD_TIMEOUT under wait_for on the hook; before it, at it or after it
\* for input() on the terminal, which nothing bounds
InputDelays(p) ==
    IF player(p).ifunc THEN 0 .. DISCORD_TIMEOUT - 1
    ELSE 0 .. DISCORD_TIMEOUT + 1

\* Human.ask_move: the input arrives after d ticks and is sanitized
Human_ask_move(text, d) ==
    /\ pc = "input"
    /\ text \in HumanInputs
    /\ d \in InputDelays(i)
    /\ elapsed' = Later(elapsed, d)
    /\ user_input' = sanithize(text)[1]
    /\ error' = sanithize(text)[2]
    /\ pc' = "asked"
    /\ UNCHANGED << sessionVars, alive, agentVars, loopVars, progInput,
                    tellVars, exc, countVars, stopped >>

\* Human.ask_move: wait_for on the input hook raises TimeoutError after
\* DISCORD_TIMEOUT
Human_ask_move_timeout ==
    /\ pc = "input"
    /\ player(i).ifunc
    /\ elapsed' = Later(elapsed, DISCORD_TIMEOUT)
    /\ user_input' = None
    /\ error' = <<"timeout">>
    /\ pc' = "asked"
    /\ UNCHANGED << sessionVars, alive, agentVars, loopVars, progInput,
                    tellVars, exc, countVars, stopped >>

\* AI_ask_move_line with `return None, "error"` inside `if debug:`
AI_ask_move_line_debug_only(raw, debug) ==
    LET text == strip(raw) IN
    IF startswith(text, "Traceback") /\ debug
    THEN [op |-> "return", move |-> None, error |-> <<"error">>]
    ELSE IF startswith(text, ">")
    THEN [op |-> "continue", move |-> None, error |-> None]
    ELSE [op |-> "return", move |-> sanithize(text)[1],
          error |-> sanithize(text)[2]]

\* AI.ask_move, what one line read from stdout leads to: "continue" the
\* read loop, or return the pair (move, reason).  `debug` only selects what
\* is printed
AI_ask_move_line(raw, debug) ==
    LET text == strip(raw) IN
    IF startswith(text, "Traceback")
    THEN [op |-> "return", move |-> None, error |-> <<"error">>]
    ELSE IF startswith(text, ">")
    THEN [op |-> "continue", move |-> None, error |-> None]
    ELSE [op |-> "return", move |-> sanithize(text)[1],
          error |-> sanithize(text)[2]]

\* AI.ask_move(debug): one turn of `while True`: a line arrives d ticks
\* after this wait_for(readuntil(), TIMEOUT_LENGTH) started
AI_ask_move(raw, d, debug) ==
    /\ pc = "read"
    /\ raw \in AgentLines
    /\ d \in 0 .. TIMEOUT_LENGTH - 1
    /\ elapsed' = Later(elapsed, d)
    /\ progInput' = raw
    /\ LET r == AI_ask_move_line(raw, debug) IN
       IF r.op = "continue"
       THEN UNCHANGED << pc, user_input, error >>
       ELSE /\ user_input' = r.move
            /\ error' = r.error
            /\ pc' = "asked"
    /\ UNCHANGED << sessionVars, alive, agentVars, loopVars, tellVars, exc,
                    countVars, stopped >>

\* AI.ask_move: this wait_for runs out (TimeoutError)
AI_ask_move_timeout ==
    /\ pc = "read"
    /\ elapsed' = Later(elapsed, TIMEOUT_LENGTH)
    /\ user_input' = None
    /\ error' = <<"timeout">>
    /\ pc' = "asked"
    /\ UNCHANGED << sessionVars, alive, agentVars, loopVars, progInput,
                    tellVars, exc, countVars, stopped >>

\* AI.ask_move: the process has exited and stdout ends before a separator
\* (IncompleteReadError)
AI_ask_move_eof(d) ==
    /\ pc = "read"
    /\ proc[i] = "exited"
    /\ d \in 0 .. TIMEOUT_LENGTH - 1
    /\ elapsed' = Later(elapsed, d)
    /\ user_input' = None
    /\ error' = <<"timeout">>
    /\ pc' = "asked"
    /\ UNCHANGED << sessionVars, alive, agentVars, loopVars, progInput,
                    tellVars, exc, countVars, stopped >>

\* the reasons after which a seat is not asked again
TerminalReasons == { <<"user interrupt">>, <<"timeout">> }

\* game_asked with `break` on a terminal reason only, an AI being asked
\* again like a Human
game_asked_retry ==
    /\ pc = "asked"
    /\ IF error \notin TerminalReasons /\ Falsy(user_input)
       THEN /\ pc' = "ask"
            /\ UNCHANGED tellVars
       ELSE IF Falsy(user_input)
       THEN /\ pc' = "lose"
            /\ UNCHANGED tellVars
       ELSE /\ pc' = "tell"
            /\ move' = ValidInputHere
            /\ j' = 0
    /\ elapsed' = 0
    /\ progInput' = <<>>
    /\ UNCHANGED << sessionVars, alive, agentVars, loopVars, user_input,
                    error, exc, countVars, stopped >>

\* game(): ask_move has returned: break, or test `while not user_input`
\* again; out of the loop, `if not user_input` chooses between the
\* elimination and the broadcast of the move
game_asked ==
    /\ pc = "asked"
    /\ IF ~(isAI(i) \/ error \in TerminalReasons) /\ Falsy(user_input)
       THEN /\ pc' = "ask"
            /\ UNCHANGED tellVars
       ELSE IF Falsy(user_input)
       THEN /\ pc' = "lose"
            /\ UNCHANGED tellVars
       ELSE /\ pc' = "tell"
            /\ move' = ValidInputHere
            /\ j' = 0
    /\ elapsed' = 0
    /\ progInput' = <<>>
    /\ UNCHANGED << sessionVars, alive, agentVars, loopVars, user_input,
                    error, exc, countVars, stopped >>

\* ------------------------------------------------------------------------
\* Elimination and broadcast
\* ------------------------------------------------------------------------

\* lose_game clearing the alive flag itself
lose_game_flips ==
    /\ pc = "lose"
    /\ alive' = [alive EXCEPT ![i] = FALSE]
    /\ pc' = "record"
    /\ UNCHANGED << sessionVars, agentVars, loopVars, askVars, tellVars, exc,
                    countVars, stopped >>

\* game(): await player.lose_game(), the announcement of the elimination
lose_game ==
    /\ pc = "lose"
    /\ pc' = "record"
    /\ UNCHANGED << sessionVars, alive, agentVars, loopVars, askVars,
                    tellVars, exc, countVars, stopped >>

\* game_record without `errors[player] = error`
game_record_skipped ==
    /\ pc = "record"
    /\ pc' = "eliminate"
    /\ UNCHANGED << sessionVars, alive, agentVars, loopVars, askVars,
                    tellVars, exc, countVars, stopped >>

\* game(): errors[player] = error
game_record ==
    /\ pc = "record"
    /\ errors' = Put(errors, i, error)
    /\ pc' = "eliminate"
    /\ UNCHANGED << sessionVars, alive, agentVars, alive_players, turn,
                    winner, i, askVars, tellVars, exc, countVars, stopped >>

\* game_eliminate without `alive_players -= 1`
game_eliminate_uncounted ==
    /\ pc = "eliminate"
    /\ alive' = [alive EXCEPT ![i] = FALSE]
    /\ pc' = "tell"
    /\ move' = None
    /\ j' = 0
    /\ UNCHANGED << sessionVars, agentVars, loopVars, askVars, exc,
                    countVars, stopped >>

\* game(): player.alive = False; alive_players -= 1; then the null move is
\* told to the others
game_eliminate ==
    /\ pc = "eliminate"
    /\ alive' = [alive EXCEPT ![i] = FALSE]
    /\ alive_players' = alive_players - 1
    /\ pc' = "tell"
    /\ move' = None
    /\ j' = 0
    /\ UNCHANGED << sessionVars, agentVars, errors, turn, winner, i, askVars,
                    exc, countVars, stopped >>

\* AI.tell_move on seat p: "ok", or the exception it raises.  prog.stdin is
\* truthy in every state, so write() is called: on the integer PIPE it
\* raises, on a lost transport it is dropped and drain() raises
tell_move(p) ==
    IF stdin[p] = PIPE THEN "AttributeError" ELSE drain(p)

\* Player.tell_other_players: the participants at or after position k of
\* `players` that the loop tells: not the acting one, and alive
Recipients(k) == { p \in k .. nb_players - 1 : p # i /\ alive[p] }

\* the first element of a non-empty set of seats in list order
First(S) == CHOOSE p \in S : \A q \in S : p <= q

\* Player.tell_other_players: `for other_player in players` reaches its
\* next recipient and awaits tell_move on it (a Human's tell_move does
\* nothing)
tell_other_players ==
    /\ pc = "tell"
    /\ Recipients(j) # {}
    /\ LET other_player == First(Recipients(j)) IN
       /\ told' = [told EXCEPT ![other_player] = Inc(@)]
       /\ IF isAI(other_player)
          THEN /\ stdin' = [stdin EXCEPT
                              ![other_player] = IF @ = "open" THEN "open" ELSE PIPE]
               /\ IF tell_move(other_player) = "ok"
                  THEN /\ pipe' = [pipe EXCEPT ![other_player] =
                                      write(@, Notification(move))]
                       /\ j' = other_player + 1
                       /\ UNCHANGED << pc, exc >>
                  ELSE /\ pc' = "raised"
                       /\ exc' = tell_move(other_player)
                       /\ UNCHANGED << pipe, j >>
          ELSE /\ j' = other_player + 1
               /\ UNCHANGED << stdin, pipe, pc, exc >>
    /\ UNCHANGED << sessionVars, alive, proc, handshakes, loopVars, askVars,
                    move, asks, stopped >>

\* game(): the broadcast is over; turn += 1.  The locals of the turn are
\* dead until the next turn assigns them, and the counters of the turn's
\* calls start again
game_next_turn ==
    /\ pc = "tell"
    /\ Recipients(j) = {}
    /\ turn' = (turn + 1) % nb_players
    /\ pc' = "loop"
    /\ user_input' = None
    /\ error' = None
    /\ elapsed' = 0
    /\ progInput' = <<>>
    /\ move' = None
    /\ j' = 0
    /\ asks' = 0
    /\ told' = [p \in Seats |-> 0]
    /\ UNCHANGED << sessionVars, alive, agentVars, alive_players, errors,
                    winner, i, exc, stopped >>

\* ------------------------------------------------------------------------
\* Session end
\* ------------------------------------------------------------------------

\* [player for player in players if player.alive]
AlivePlayers == { p \in Seats : alive[p] }

\* game(): `while alive_players >= 2` fails; with alive_players == 1 the
\* winner is the first alive participant (IndexError if there is none)
game_winner ==
    /\ pc = "loop"
    /\ ~LoopCondition
    /\ IF alive_players = 1
       THEN IF AlivePlayers = {}
            THEN /\ pc' = "raised"
                 /\ exc' = "IndexError"
                 /\ UNCHANGED winner
            ELSE /\ winner' = First(AlivePlayers)
                 /\ pc' = "stop"
                 /\ UNCHANGED exc
       ELSE /\ pc' = "stop"
            /\ UNCHANGED << winner, exc >>
    /\ UNCHANGED << sessionVars, alive, agentVars, alive_players, errors,
                    turn, i, askVars, tellVars, countVars, stopped >>

\* AI.stop_game of seat p, one member of the gather: terminate() and
\* wait(); ProcessLookupError of a process that is gone is swallowed
stop_game(p) ==
    /\ pc = "stop"
    /\ p \in AIs \ stopped
    /\ proc' = [proc EXCEPT ![p] = IF @ = "running" THEN "terminated" ELSE @]
    /\ stopped' = stopped \cup {p}
    /\ UNCHANGED << sessionVars, alive, stdin, handshakes, pipe, pc,
                    loopVars, askVars, tellVars, exc, countVars >>

\* game_return without waiting for the enders
game_return_early ==
    /\ pc = "stop"
    /\ pc' = "done"
    /\ UNCHANGED << sessionVars, alive, agentVars, loopVars, askVars,
                    tellVars, exc, countVars, stopped >>

\* game(): the gather of the enders has returned; return
game_return ==
    /\ pc = "stop"
    /\ stopped = AIs
    /\ pc' = "done"
    /\ UNCHANGED << sessionVars, alive, agentVars, loopVars, askVars,
                    tellVars, exc, countVars, stopped >>

\* ------------------------------------------------------------------------
\* Specifications
\* ------------------------------------------------------------------------

Next ==
    \/ \E p \in Seats : start_game(p)
    \/ \E p \in Seats : AI_start_game(p)
    \/ \E p \in Seats : AI_start_game_handshake(p)
    \/ game_started
    \/ \E p \in Seats : agent_exits(p)
    \/ game_turn
    \/ game_render
    \/ game_ask
    \/ \E text \in HumanInputs, d \in 0 .. DISCORD_TIMEOUT + 1 :
          Human_ask_move(text, d)
    \/ Human_ask_move_timeout
    \/ \E raw \in AgentLines, d \in 0 .. TIMEOUT_LENGTH - 1, debug \in BOOLEAN :
          AI_ask_move(raw, d, debug)
    \/ AI_ask_move_timeout
    \/ \E d \in 0 .. TIMEOUT_LENGTH - 1 : AI_ask_move_eof(d)
    \/ game_asked
    \/ lose_game
    \/ game_record
    \/ game_eliminate
    \/ tell_other_players
    \/ game_next_turn
    \/ game_winner
    \/ \E p \in Seats : stop_game(p)
    \/ game_return

Spec == Init /\ [][Next]_vars

\* the event loop keeps running the driver task while it has a step to take
FairSpec == Spec /\ WF_vars(Next)

TypeOK ==
    /\ players \in PlayerLists
    /\ DOMAIN alive \subseteq Seats
    /\ DOMAIN proc \subseteq AIs
    /\ DOMAIN stdin = DOMAIN proc
    /\ \A p \in DOMAIN proc :
          /\ proc[p] \in {"running", "exited", "terminated"}
          /\ stdin[p] \in {"open", "lost", PIPE}
          /\ pipe[p] \in 0 .. MaxCount
    /\ DOMAIN pipe = DOMAIN proc
    /\ handshakes \in [AIs -> 0 .. MaxCount]
    /\ pc \in {"start", "loop", "render", "ask", "input", "read", "asked",
               "lose", "record", "eliminate", "tell", "stop", "done",
               "raised"}
    /\ alive_players \in 0 .. nb_players
    /\ turn \in 0 .. nb_players - 1
    /\ winner \in Seats \cup {NoPlayer}
    /\ i \in Seats
    /\ j \in 0 .. nb_players
    /\ elapsed \in 0 .. MaxElapsed
    /\ exc \in {"", "AttributeError", "IndexError"}
    /\ asks \in 0 .. MaxCount
    /\ stopped \subseteq AIs

\* ------------------------------------------------------------------------
\* Predicates shared by the properties
\* ------------------------------------------------------------------------

\* game() is inside the turn of seat i
InTurn == pc \in {"render", "ask", "input", "read", "asked", "lose",
                  "record", "eliminate", "tell"}

\* the broadcast of this turn has reached the end of `players`
BroadcastOver == pc = "tell" /\ Recipients(j) = {}

\* an exception has escaped game() out of the broadcast of the turn of
\* seat i
RaisedInTurn ==
    /\ pc = "raised"
    /\ exc = "AttributeError"
    /\ \E p \in Seats : told[p] > 0

\* the elimination of seat i has been recorded with the reason r
Eliminated(r) == i \in DOMAIN errors /\ errors[i] = r /\ ~alive[i]

\* every participant other than seat i that is alive has been told once in
\* this turn, and seat i has not been told
ToldOnce ==
    /\ told[i] = 0
    /\ \A p \in Seats \ {i} : alive[p] => told[p] = 1

\* ------------------------------------------------------------------------
\* Properties
\* ------------------------------------------------------------------------

\* ask_move has just returned to game()
AskReturned == pc = "asked"

\* C1: a session of N >= 2 participants in which every ask_move returns a
\* valid move terminates, with exactly one winner and no elimination.
\* Stated for the sessions whose ask_move calls keep returning: one of them
\* returns no usable move, or an exception escapes, or game() returns with a
\* winner and an empty elimination mapping.
C1_ValidMovesTerminate ==
    ([]<>AskReturned) =>
        <>(\/ (AskReturned /\ Falsy(user_input))
           \/ pc = "raised"
           \/ (pc = "done" /\ winner # NoPlayer /\ errors = EmptyMap))

\* C2: a Human whose input on its turn is "stop" is eliminated in that turn
\* with the reason user interrupt, is not asked again, and every other
\* alive participant is told the null move exactly once.
C2_HumanStop ==
    (isHuman(i) /\ error = <<"user interrupt">>) =>
        /\ pc \notin {"ask", "input", "raised"}
        /\ (pc = "tell" => Eliminated(<<"user interrupt">>) /\ move = None)
        /\ (BroadcastOver => ToldOnce)

\* C3: an alive AI that writes no line within the timeout gets the result
\* (None, timeout), is recorded in errors with the reason timeout and marked
\* not alive, and no exception escapes game().
C3_AgentTimeout ==
    (isAI(i) /\ error = <<"timeout">>) =>
        /\ user_input = None
        /\ pc # "raised"
        /\ (pc = "tell" => Eliminated(<<"timeout">>))

\* C4: when the line an AI's ask_move stops on begins with the crash marker,
\* the result is (None, error) whatever debug is, the AI is not asked again
\* and its seat is eliminated in that turn with the reason error.
C4_CrashEliminates ==
    /\ (pc = "asked" /\ isAI(i) /\ startswith(strip(progInput), "Traceback"))
          => (user_input = None /\ error = <<"error">>)
    /\ (isAI(i) /\ error = <<"error">>) =>
          /\ asks = 1
          /\ pc \notin {"ask", "read"}
          /\ (pc \in {"tell", "raised"} => Eliminated(<<"error">>))
    /\ (pc \in {"ask", "read"} => alive[i] /\ i \notin DOMAIN errors)

\* C4, reached: the crash marker has been read and the seat eliminated
C4_Witness ==
    /\ pc = "tell"
    /\ isAI(i)
    /\ error = <<"error">>
    /\ Eliminated(<<"error">>)
    /\ asks = 1

\* C5: once game() has finished, by a return or by an exception, every
\* agent process that was spawned has been terminated and waited for.
C5_AgentsStopped ==
    pc \in {"done", "raised"} =>
        \A p \in DOMAIN proc : p \in stopped /\ proc[p] # "running"

\* C6: with at least 3 participants, on a turn that designates an
\* eliminated seat ask_move is not called, every other alive participant is
\* told the null move exactly once, and the dead seat not at all.
C6_DeadSeatSkipped ==
    (nb_players >= 3 /\ (InTurn \/ RaisedInTurn) /\ i \in DOMAIN errors
        /\ asks = 0) =>
        /\ pc = "tell"
        /\ move = None
        /\ told[i] = 0
        /\ (BroadcastOver => ToldOnce)

\* C7: the reason recorded for an eliminated participant is never None.
C7_ReasonRecorded == \A p \in DOMAIN errors : errors[p] # None

\* ask_move has returned no usable move with a reason that is not terminal
\* for the seat
RetryableResult ==
    /\ pc = "asked"
    /\ Falsy(user_input)
    /\ ~(isAI(i) \/ error \in TerminalReasons)

\* C8: after ask_move has returned no usable move with a retryable reason,
\* the inner loop of the turn ends and the turn counter advances (or an
\* exception ends the session).
C8_RetryEnds == RetryableResult ~> (pc \in {"loop", "raised"})

\* C9: an AI's ask_move returns within one timeout budget counted from its
\* first read, however many debug lines it reads.
C9_OneBudget == (pc = "asked" /\ isAI(i)) => elapsed <= TIMEOUT_LENGTH

\* C10: telling a move to an AI whose stdin has been closed or reset is
\* skipped silently: nothing is raised and the broadcast goes on.
C10_ClosedStdinSkipped ==
    [][ (/\ pc = "tell"
         /\ Recipients(j) # {}
         /\ isAI(First(Recipients(j)))
         /\ stdin[First(Recipients(j))] # "open")
        => pc' = "tell" ]_vars

\* C11: every ask_move on a Human returns within DISCORD_TIMEOUT, with the
\* result (None, timeout) when no input has arrived by then, whether the
\* Human has an input hook or reads the terminal.
C11_HumanBounded ==
    (pc = "asked" /\ isHuman(i)) =>
        /\ elapsed <= DISCORD_TIMEOUT
        /\ (elapsed = DISCORD_TIMEOUT =>
                user_input = None /\ error = <<"timeout">>)

\* C12: the handshake is written to each AI exactly once in a session, and
\* before any ask_move or tell_move on any participant: no AI is ever
\* written a second handshake, and once a participant has been asked or
\* told, or game() is past the start, every AI has been written its one.
C12_HandshakeOnce ==
    /\ \A p \in AIs : handshakes[p] <= 1
    /\ (asks > 0 \/ \E p \in Seats : told[p] > 0) =>
          \A p \in AIs : handshakes[p] = 1
    /\ (pc \notin {"start", "raised"}) => \A p \in AIs : handshakes[p] = 1

\* C12, reached: an AI has been asked and another told, each AI having its
\* one handshake
C12_Witness ==
    /\ pc = "tell"
    /\ isAI(i)
    /\ asks = 1
    /\ \E p \in AIs : told[p] = 1 /\ handshakes[p] = 1 /\ handshakes[i] = 1

\* C13: every tell_move on an AI whose stdin is open adds exactly one
\* terminated line to the agent's input, so that the handshake and k
\* notifications make k + 1 lines the agent can read.
C13_OneLinePerNotification ==
    [][ \A p \in DOMAIN pipe :
            (told'[p] > told[p] /\ stdin[p] = "open") =>
                pipe'[p] = Inc(pipe[p]) ]_vars

\* the participants whose alive flag is true
AliveSeats == { p \in DOMAIN alive : alive[p] }

\* C14: when game() returns, the winner is the one alive participant if
\* there is exactly one and None otherwise; the winner is no key of errors,
\* and the keys of errors are the participants whose alive flag is false.
C14_Result ==
    pc = "done" =>
        /\ (Cardinality(AliveSeats) = 1 => winner \in AliveSeats)
        /\ (Cardinality(AliveSeats) # 1 => winner = NoPlayer)
        /\ winner \notin DOMAIN errors
        /\ DOMAIN errors = Seats \ AliveSeats

\* C14, reached: game() has returned a winner and a recorded elimination
C14_Witness ==
    /\ pc = "done"
    /\ winner \in AliveSeats
    /\ DOMAIN errors # {}
    /\ DOMAIN errors = Seats \ AliveSeats

\* C15: once the start_game calls are over, an alive flag changes only from
\* true to false and only in the elimination step of game(), for the acting
\* seat; no later step sets it back or changes it otherwise (so it changes
\* at most once).
C15_AliveOnlyFalls ==
    [][ (pc # "start") =>
            \A p \in DOMAIN alive :
                (alive'[p] # alive[p]) =>
                    /\ alive[p]
                    /\ ~alive'[p]
                    /\ p = i
                    /\ pc = "eliminate"
                    /\ pc' = "tell" ]_vars

\* C15, reached: after an elimination, a later turn of an alive seat has
\* begun and the eliminated seat is still not alive
C15_Witness ==
    /\ pc = "read"
    /\ alive[i]
    /\ \E p \in Seats : ~alive[p] /\ p \in DOMAIN errors

\* C16: a result that is terminal for the acting seat (any result of an
\* AI, a null result with the reason user interrupt or timeout of anyone)
\* ends the asking of the turn: an AI is asked exactly once, nobody is asked
\* again after a terminal reason, and a null result that ends the asking
\* eliminates the seat in the same turn.
C16_TerminalOnce ==
    /\ (isAI(i) /\ pc \in {"read", "asked", "lose", "record", "eliminate"})
          => asks = 1
    /\ (isAI(i) /\ pc \in {"tell", "raised"}) => asks <= 1
    /\ (error \in TerminalReasons) => pc \notin {"ask", "input", "read"}
    /\ (pc \in {"lose", "record", "eliminate"})
          => (asks > 0 /\ Falsy(user_input) /\ alive[i])
    /\ ((pc = "tell" \/ RaisedInTurn) /\ asks > 0 /\ Falsy(user_input))
          => (~alive[i] /\ i \in DOMAIN errors)

\* C16, reached: a Human asked again after an empty input and then timed
\* out has been eliminated in that turn
C16_Witness ==
    /\ pc = "tell"
    /\ isHuman(i)
    /\ asks = 2
    /\ error = <<"timeout">>
    /\ ~alive[i]
    /\ i \in DOMAIN errors

\* this turn has eliminated the acting seat
EliminationTurn == asks > 0 /\ Falsy(user_input)

\* C17: an elimination goes in this order within one turn: the announcement
\* (lose_game), the record of the reason, alive = False with the decrement
\* of the count, and only then the broadcast of the null move, which reaches
\* every participant still alive exactly once and never the eliminated one;
\* nobody is asked for a move in between.
C17_EliminationOrder ==
    /\ (pc \in {"lose", "record"}) =>
          /\ alive[i]
          /\ i \notin DOMAIN errors
          /\ alive_players = Cardinality(AliveSeats)
          /\ \A p \in Seats : told[p] = 0
    /\ (pc = "eliminate") =>
          /\ alive[i]
          /\ i \in DOMAIN errors
          /\ alive_players = Cardinality(AliveSeats)
          /\ \A p \in Seats : told[p] = 0
    /\ ((pc = "tell" \/ RaisedInTurn) /\ EliminationTurn) =>
          /\ pc = "tell"
          /\ move = None
          /\ ~alive[i]
          /\ i \in DOMAIN errors
          /\ alive_players = Cardinality(AliveSeats)
          /\ told[i] = 0
          /\ \A p \in Seats : told[p] <= 1
          /\ (BroadcastOver => ToldOnce)
    /\ (pc \in {"ask", "input", "read"}) => (alive[i] /\ i \notin DOMAIN errors)

\* C18: the two fan-outs are barriers: nobody is asked or told, and the loop
\* is not entered, before every start_game is over, and game() does not
\* return before every AI's stop_game is over.
C18_Barriers ==
    /\ (asks > 0 \/ (\E p \in Seats : told[p] > 0) \/ InTurn \/ pc = "loop")
          => Started = Seats
    /\ (pc = "done") =>
          (stopped = AIs /\ \A p \in AIs : proc[p] # "running")

\* C18, reached: game() has returned after the stop_game of two AIs
C18_Witness ==
    /\ pc = "done"
    /\ Started = Seats
    /\ Cardinality(stopped) >= 2
    /\ stopped = AIs

\* C19: at each evaluation of the loop condition alive_players is the
\* number of participants whose alive flag is true; the counter never
\* increases and is never below that number.
C19_CounterExact ==
    /\ []((pc = "loop") => alive_players = Cardinality(AliveSeats))
    /\ [](alive_players >= Cardinality(AliveSeats))
    /\ [][alive_players' <= alive_players]_vars

\* C19, reached: the loop condition is evaluated after two eliminations
C19_Witness ==
    /\ pc = "loop"
    /\ nb_players = 3
    /\ alive_players = 1
    /\ Cardinality(AliveSeats) = 1

\* C20: in a session of N >= 2 participants, when game() returns exactly
\* one participant is alive and the winner is not None; no state in which
\* every participant has been eliminated is reached.
C20_OneSurvivor ==
    /\ (pc \in {"stop", "done"}) =>
          (Cardinality(AliveSeats) = 1 /\ winner \in AliveSeats)
    /\ (DOMAIN alive = Seats) => AliveSeats # {}

\* C20, reached: game() has returned from a session of three participants
\* after two eliminations
C20_Witness ==
    /\ pc = "done"
    /\ nb_players = 3
    /\ Cardinality(DOMAIN errors) = 2
    /\ winner # NoPlayer

=============================================================================
